---- MODULE Spec2Model ----
(***************************************************************************)
(* A model of steps.py: the API client of the step-tracking website (class *)
(* API), the command-line subcommands built on it (activities, history,    *)
(* leaders, add, delete) and the use of API from an importing script.      *)
(*                                                                         *)
(* Strings the program takes apart or builds piecewise are sequences of    *)
(* tokens: a request path is a sequence in which every '?' and '&' is a    *)
(* token of its own, a leaderboard total is a sequence of characters.      *)
(* A Python dict is a sequence of <<key, value>> pairs in iteration order. *)
(* None and the empty string (both false in "if date:") are "".           *)
(***************************************************************************)
EXTENDS Integers, Sequences, FiniteSets, TLC

VARIABLES
    pc,           \* position of the run: start, ready, a handler step, done, error, exit
    cmd,          \* the subcommand argparse selected, or "module" for an importing script
    debug,        \* args.debug, and API.debug once the API object exists
    date,         \* args.date ("" for a subcommand without --date)
    steps,        \* args.steps (0 for a subcommand without it)
    config,       \* "present" or "missing": the file ~/10kstepsrc
    session,      \* API.session: 0 is None, n > 0 the n-th requests.Session() object
    requests,     \* every HTTP request issued, in order (timestamp value left out)
    url,          \* the last URL _url returned, timestamp included
    walk,         \* the service's walking logs: dict date -> record
    acts,         \* the service's activity types: keys of data.else_used
    ret,          \* <<v>>: the value the last _get returned; <<>> before any
    dic,          \* <<v>>: the local dic of activities, history and delete; <<>> unset
    todo,         \* delete: the log records still to iterate
    ranking,      \* leaders: the list ranking
    team_totals,  \* leaders: the dict team_totals
    out,          \* the report printed on stdout
    diag,         \* what the debug prints wrote
    err,          \* the exception that ended the run, "" if none
    calls,        \* API methods an importing script has called
    call,         \* the last of them, with its arguments
    twin          \* <<>>, or <<r>>: a second run, fed the same inputs and responses

vars == <<pc, cmd, debug, date, steps, config, session, requests, url, walk,
          acts, ret, dic, todo, ranking, team_totals, out, diag, err, calls, call,
          twin>>

----------------------------------------------------------------------------
(* Bounds of the model *)

MaxStats == 2      \* statistic records in a leaderboard snapshot
MaxLogs == 2       \* log entries the service holds before the run
MaxSteps == 1      \* step count of one log entry, and of add's argument
MaxTime == 2       \* distinct readings of the millisecond clock
MaxCalls == 2      \* API method calls of an importing script

----------------------------------------------------------------------------
(* Strings and Python helpers *)

Range(s) == {s[i] : i \in DOMAIN s}

\* The strings the program compares, listed in Python's (lexicographic) order.
StrOrder == <<"2024-02-29", "2024-03-01", "cycling", "running", "swimming">>

StrPos(s) == CHOOSE i \in DOMAIN StrOrder : StrOrder[i] = s

\* Python's a < b on two of these strings.
StrLess(a, b) == StrPos(a) < StrPos(b)

RECURSIVE InsertAsc(_, _)
InsertAsc(sorted, x) ==
    IF sorted = <<>> THEN <<x>>
    ELSE IF StrLess(x, Head(sorted)) THEN <<x>> \o sorted
    ELSE <<Head(sorted)>> \o InsertAsc(Tail(sorted), x)

\* list.sort() on a list of strings: ascending, stable.
RECURSIVE SortAsc(_)
SortAsc(s) ==
    IF s = <<>> THEN <<>> ELSE InsertAsc(SortAsc(SubSeq(s, 1, Len(s) - 1)), s[Len(s)])

RECURSIVE SumSeq(_)
SumSeq(s) == IF s = <<>> THEN 0 ELSE Head(s) + SumSeq(Tail(s))

\* dict helpers: d is a sequence of <<key, value>>
Keys(d) == [i \in DOMAIN d |-> d[i][1]]
Values(d) == [i \in DOMAIN d |-> d[i][2]]
HasKey(d, k) == \E i \in DOMAIN d : d[i][1] = k
Lookup(d, k) == d[CHOOSE i \in DOMAIN d : d[i][1] = k][2]
Update(d, k, v) == [i \in DOMAIN d |-> IF d[i][1] = k THEN <<k, v>> ELSE d[i]]

Digits == <<"0", "1", "2", "3", "4", "5", "6", "7", "8", "9">>
IsDigit(c) == \E i \in DOMAIN Digits : Digits[i] = c
DigitVal(c) == (CHOOSE i \in DOMAIN Digits : Digits[i] = c) - 1

RECURSIVE DigitsVal(_, _)
DigitsVal(cs, acc) ==
    IF cs = <<>> THEN acc ELSE DigitsVal(Tail(cs), 10 * acc + DigitVal(Head(cs)))

\* Whether int(s) accepts the string: an optional sign, then digits only.
IntOk(cs) ==
    LET body == IF cs # <<>> /\ Head(cs) \in {"-", "+"} THEN Tail(cs) ELSE cs
    IN  body # <<>> /\ \A i \in DOMAIN body : IsDigit(body[i])

\* int(s) for a string int() accepts.
ParseInt(cs) ==
    IF Head(cs) = "-" THEN 0 - DigitsVal(Tail(cs), 0)
    ELSE IF Head(cs) = "+" THEN DigitsVal(Tail(cs), 0)
    ELSE DigitsVal(cs, 0)

----------------------------------------------------------------------------
(* The data the service can hold *)

Dates == {"2024-02-29", "2024-03-01"}
DateOrders == {<<"2024-02-29", "2024-03-01">>, <<"2024-03-01", "2024-02-29">>}

Users == {"u1", "u2"}
Teams == {"t1", "t2"}
Totals == {<<"7">>, <<"4", "2">>, <<"x">>}

UserRecord(u) ==
    IF u = "u1" THEN [first_name |-> "A", last_name |-> "B", login |-> "ab"]
    ELSE [first_name |-> "C", last_name |-> "D", login |-> "cd"]
TeamRecord(t) == IF t = "t1" THEN [name |-> "Alpha"] ELSE [name |-> "Beta"]

StatRecords == [user_id : Users, team_id : Teams, total : Totals]
StatSeqs == UNION {[1..n -> StatRecords] : n \in 0..MaxStats}
IndexKeySeqs == {<<>>, <<"t1">>, <<"t2">>, <<"t1", "t2">>, <<"t2", "t1">>}

\* A leaderboard snapshot. users and teams are dicts given by their key sets
\* (a key's record is UserRecord / TeamRecord); indexUsersByTeam by its keys.
Snapshots ==
    [indexUsersByTeam : IndexKeySeqs, statistics : StatSeqs,
     users : {Users, {"u1"}}, teams : {Teams, {"t1"}}]

SampleBoard ==
    [indexUsersByTeam |-> <<"t1">>,
     statistics |-> <<[user_id |-> "u1", team_id |-> "t1", total |-> <<"4", "2">>]>>,
     users |-> Users, teams |-> Teams]

ActivityDicts == {<<>>, <<"running", "cycling">>, <<"swimming", "cycling", "running">>}

\* The log entries before the run: entry i belongs to one date, or to none ("").
LogSlots == {[date |-> "", steps |-> 0]} \cup [date : Dates, steps : 0..MaxSteps]
LogAssignments == [1..MaxLogs -> LogSlots]

RECURSIVE LogsOf(_, _, _)
LogsOf(a, d, i) ==
    IF i > MaxLogs THEN <<>>
    ELSE (IF a[i].date = d THEN <<<<i, [id |-> i, steps |-> a[i].steps]>>>> ELSE <<>>)
         \o LogsOf(a, d, i + 1)

\* The record of a date without entries: no record, one without the key
\* "logs", or one whose "logs" is empty.
EmptyModes == {"absent", "nokey", "empty"}

DateEntry(a, d, mode) ==
    LET logs == LogsOf(a, d, 1)
    IN  IF logs # <<>> THEN <<<<d, [haslogs |-> TRUE, logs |-> logs]>>>>
        ELSE IF mode = "absent" THEN <<>>
        ELSE <<<<d, [haslogs |-> (mode = "empty"), logs |-> <<>>]>>>>

WalkOf(order, a, modes) ==
    DateEntry(a, order[1], modes[order[1]]) \o DateEntry(a, order[2], modes[order[2]])

WalkStates ==
    {WalkOf(o, a, m) : o \in DateOrders, a \in LogAssignments, m \in [Dates -> EmptyModes]}

SampleWalk ==
    <<<<"2024-03-01", [haslogs |-> TRUE, logs |-> <<<<1, [id |-> 1, steps |-> 1]>>>>]>>>>

Times == 1..MaxTime
NetOutcomes == {"ok", "neterr"}
GetOutcomes == {"ok", "notjson", "neterr"}

----------------------------------------------------------------------------
(* The website, as the docstrings of the API methods describe it *)

base_url == "https://www.members.10000stepsuk.com"

AllLogIds(w) == UNION {{e[2].logs[j][1] : j \in DOMAIN e[2].logs} : e \in Range(w)}

FreshLogId(w) ==
    IF AllLogIds(w) = {} THEN 1
    ELSE 1 + (CHOOSE m \in AllLogIds(w) : \A n \in AllLogIds(w) : n <= m)

\* "the logged steps ... for all dates", or, with reloadDate, "only ... data
\* for that date". q is the query: the tokens after the resource.
ServeWalkHistory(w, q) ==
    IF Len(q) >= 3 /\ q[1] = "?" /\ q[2] = "reloadDate="
    THEN SelectSeq(w, LAMBDA e : e[1] = q[3])
    ELSE w

\* "Deletes a steps entry": the entry whose id is written idtok goes. A date
\* left without entries keeps an empty "logs" (keep) or loses the key.
ServeDelete(w, idtok, keep) ==
    [i \in DOMAIN w |->
        LET rec == w[i][2]
            left == SelectSeq(rec.logs, LAMBDA l : ToString(l[1]) # idtok)
        IN  IF left = rec.logs THEN w[i]
            ELSE <<w[i][1], [haslogs |-> (left # <<>> \/ keep), logs |-> left]>>]

\* "Add specified step_count for date": a new entry, with a fresh id.
ServeAdd(w, d, n) ==
    LET new == <<FreshLogId(w), [id |-> FreshLogId(w), steps |-> n]>>
    IN  IF HasKey(w, d)
        THEN Update(w, d, [haslogs |-> TRUE, logs |-> Append(Lookup(w, d).logs, new)])
        ELSE Append(w, <<d, [haslogs |-> TRUE, logs |-> <<new>>]>>)

\* The service's answer to one request: its walking logs afterwards and the
\* JSON body. target is the URL without the timestamp value; the leaderboard
\* is the snapshot ch.board the service computes for this request.
Service(r, method, target, data, ch) ==
    LET res == target[2]
        q == SubSeq(target, 3, Len(target))
    IN  IF method = "GET" /\ res = "/users/getActivityList"
        THEN [walk |-> r.walk, body |-> [data |-> [else_used |-> r.acts]]]
        ELSE IF method = "GET" /\ res = "/users/logWalkHistory"
        THEN [walk |-> r.walk, body |-> [data |-> ServeWalkHistory(r.walk, q)]]
        ELSE IF method = "GET" /\ res = "/users/leaderboards"
        THEN [walk |-> r.walk, body |-> ch.board]
        ELSE IF method = "GET" /\ res = "/walking_logs/"
                /\ Len(q) >= 3 /\ q[2] = "?" /\ q[3] = "_method=delete"
        THEN [walk |-> ServeDelete(r.walk, q[1], ch.keep), body |-> [data |-> <<>>]]
        ELSE IF method = "POST" /\ res = "/walking_logs.json"
                /\ Len(data) >= 6 /\ data[5] = "walking_log[steps]"
        THEN [walk |-> ServeAdd(r.walk, data[2], data[6]), body |-> [data |-> <<>>]]
        ELSE [walk |-> r.walk, body |-> [data |-> <<>>]]

----------------------------------------------------------------------------
(* class Config and class API. Every operator takes the state r of a run   *)
(* (a record of the variables) and returns the state after the call.       *)

Raise(r, kind) == [r EXCEPT !.pc = "error", !.err = kind]

\* "if self.debug: print(...)"
DebugPrint(r, what) == IF r.debug THEN [r EXCEPT !.diag = r.diag \o what] ELSE r

\* Config.get('auth', key) of the file the operator filled in.
ConfigGet(key) == IF key = "username" THEN "my_username" ELSE "my_password"

\* API._session: a new requests.Session(), then the login POST. The response
\* is not looked at.
_session(r, net) ==
    LET s == r.session + 1
        data == <<"login", ConfigGet("username"), "password", ConfigGet("password")>>
        r1 == [r EXCEPT !.session = s,
                        !.requests = Append(@, [method |-> "POST",
                                                target |-> <<base_url, "/sessions">>,
                                                data |-> data, sess |-> s])]
    IN  IF net = "neterr" THEN Raise(r1, "ConnectionError") ELSE r1

\* API.__init__, called by initialise(args). A missing configuration file
\* is created and the process exits with status 0.
initialise(r, net) ==
    IF r.config = "missing"
    THEN [r EXCEPT !.pc = "exit", !.config = "present",
                   !.out = Append(@, [kind |-> "text", text |-> "Missing ~/10kstepsrc"])]
    ELSE LET r1 == _session([r EXCEPT !.session = 0], net)
         IN  IF r1.pc = "error" THEN r1 ELSE [r1 EXCEPT !.pc = "ready"]

\* _url with the delimiter fixed to '?', whatever the path holds.
_url_always_question(r, path, ts) ==
    LET u == <<base_url>> \o path \o <<"?", "ajax.timestamp=", ToString(ts)>>
    IN  DebugPrint([r EXCEPT !.url = u], <<"URL">>)

\* API._url
_url(r, path, ts) ==
    LET delim == IF "?" \in Range(path) THEN "&" ELSE "?"
        u == <<base_url>> \o path \o <<delim, "ajax.timestamp=", ToString(ts)>>
    IN  DebugPrint([r EXCEPT !.url = u], <<"URL">>)

\* What a request records of a URL: all but the timestamp's value.
Target(u) == SubSeq(u, 1, Len(u) - 1)

\* _post with "resp = self.session.post(url, data=data)" moved under the
\* "if self.debug:" before it.
_post_in_debug(r, path, data, ch) ==
    LET r1 == DebugPrint(_url(r, path, ch.ts), <<"DATA">>)
        r2 == [r1 EXCEPT !.requests = Append(@, [method |-> "POST", target |-> Target(r1.url),
                                                 data |-> data, sess |-> r1.session])]
    IN  IF ~r.debug THEN r1
        ELSE IF ch.net = "neterr" THEN Raise(r2, "ConnectionError")
        ELSE DebugPrint([r2 EXCEPT !.walk = Service(r2, "POST", Target(r1.url), data, ch).walk],
                        <<"CODE">>)

\* API._post. ch is what the environment decides during the call: the clock
\* reading ts, the network outcome net, and the service's choices keep, board.
_post(r, path, data, ch) ==
    LET r1 == DebugPrint(_url(r, path, ch.ts), <<"DATA">>)
        r2 == [r1 EXCEPT !.requests = Append(@, [method |-> "POST", target |-> Target(r1.url),
                                                 data |-> data, sess |-> r1.session])]
    IN  IF ch.net = "neterr" THEN Raise(r2, "ConnectionError")
        ELSE DebugPrint([r2 EXCEPT !.walk = Service(r2, "POST", Target(r1.url), data, ch).walk],
                        <<"CODE">>)

\* _get logging in again (a new Session object) before each request.
_get_new_session(r, path, ch) ==
    LET r0 == _session(r, "ok")
        r1 == _url(r0, path, ch.ts)
        r2 == [r1 EXCEPT !.requests = Append(@, [method |-> "GET", target |-> Target(r1.url),
                                                 data |-> <<>>, sess |-> r1.session])]
        ans == Service(r2, "GET", Target(r1.url), <<>>, ch)
    IN  IF ch.net = "neterr" THEN Raise(r2, "ConnectionError")
        ELSE IF ch.net = "notjson" THEN Raise(r2, "ValueError")
        ELSE DebugPrint([r2 EXCEPT !.walk = ans.walk, !.ret = <<ans.body>>],
                        <<"CODE", "BODY">>)

\* API._get. resp.json() raises ValueError on a body that is not JSON.
_get(r, path, ch) ==
    LET r1 == _url(r, path, ch.ts)
        r2 == [r1 EXCEPT !.requests = Append(@, [method |-> "GET", target |-> Target(r1.url),
                                                 data |-> <<>>, sess |-> r1.session])]
        ans == Service(r2, "GET", Target(r1.url), <<>>, ch)
    IN  IF ch.net = "neterr" THEN Raise(r2, "ConnectionError")
        ELSE IF ch.net = "notjson" THEN Raise(r2, "ValueError")
        ELSE DebugPrint([r2 EXCEPT !.walk = ans.walk, !.ret = <<ans.body>>],
                        <<"CODE", "BODY">>)

get_activity_list(r, ch) == _get(r, <<"/users/getActivityList">>, ch)

get_walk_history(r, d, ch) ==
    LET path == <<"/users/logWalkHistory">>
    IN  _get(r, IF d # "" THEN path \o <<"?", "reloadDate=", d>> ELSE path, ch)

\* LeaderboardPath joining dateCheck with '?' even after '?recalc'.
LeaderboardPathQuestion(recalc, date_check) ==
    LET p1 == IF recalc THEN <<"/users/leaderboards", "?", "recalc">>
              ELSE <<"/users/leaderboards">>
    IN  IF date_check # "" THEN p1 \o <<"?", "dateCheck=", date_check>> ELSE p1

\* The path get_leaderboard requests.
LeaderboardPath(recalc, date_check) ==
    LET p1 == IF recalc THEN <<"/users/leaderboards", "?", "recalc">>
              ELSE <<"/users/leaderboards">>
        delim == IF "?" \in Range(p1) THEN "&" ELSE "?"
    IN  IF date_check # "" THEN p1 \o <<delim, "dateCheck=", date_check>> ELSE p1

get_leaderboard(r, recalc, date_check, ch) == _get(r, LeaderboardPath(recalc, date_check), ch)

add_steps(r, step_count, date_string, ch) ==
    _post(r, <<"/walking_logs.json">>,
          <<"walking_log[date_string]", date_string,
            "walking_log[units]", step_count,
            "walking_log[steps]", step_count,
            "walking_log[unit_type]", "steps">>, ch)

delete_steps(r, logs_id, ch) ==
    _get(r, <<"/walking_logs/", ToString(logs_id), "?", "_method=delete">>, ch)

----------------------------------------------------------------------------
(* The subcommands *)

Text(line) == [kind |-> "text", text |-> line]

\* activities(args): the request, then the sorted names.
activities(r, ch) ==
    LET r1 == get_activity_list(r, ch)
        data == r1.ret[1].data
        activity_list == SortAsc(data.else_used)
    IN  IF r1.pc = "error" THEN r1
        ELSE [r1 EXCEPT !.pc = "done", !.dic = r1.ret,
                        !.out = Append(@, [kind |-> "list", items |-> activity_list])]

\* The steps of one date's record: the sum over its "logs", 0 without the key.
DaySteps(rec) ==
    IF rec.haslogs THEN SumSeq([i \in DOMAIN rec.logs |-> rec.logs[i][2].steps]) ELSE 0

HistoryLines(data, dates) ==
    [i \in DOMAIN dates |->
        [kind |-> "day", date |-> dates[i], steps |-> DaySteps(Lookup(data, dates[i]))]]

\* history(args). data.keys() is a list under Python 2 and a view without
\* sort() under Python 3 (py3), where dates.sort() raises AttributeError.
history(r, ch, py3) ==
    LET r1 == get_walk_history(r, "", ch)
        data == r1.ret[1].data
        dates == Keys(data)
    IN  IF r1.pc = "error" THEN r1
        ELSE IF py3 THEN Raise([r1 EXCEPT !.dic = r1.ret], "AttributeError")
        ELSE [r1 EXCEPT !.pc = "done", !.dic = r1.ret,
                        !.out = @ \o <<Text("Date       Steps"), Text("---------- -----")>>
                                  \o HistoryLines(data, SortAsc(dates))]

\* FillRankings with "=" for "+=": a team's total is its last member's.
RECURSIVE FillRankingsOverwrite(_, _, _)
FillRankingsOverwrite(stats, rk, tt) ==
    IF stats = <<>> THEN [ranking |-> rk, team_totals |-> tt, err |-> ""]
    ELSE LET stat == Head(stats)
             rk2 == Append(rk, <<stat.user_id, ParseInt(stat.total)>>)
         IN  IF ~IntOk(stat.total)
             THEN [ranking |-> rk, team_totals |-> tt, err |-> "ValueError"]
             ELSE IF ~HasKey(tt, stat.team_id)
             THEN [ranking |-> rk2, team_totals |-> tt, err |-> "KeyError"]
             ELSE FillRankingsOverwrite(Tail(stats), rk2,
                                        Update(tt, stat.team_id, ParseInt(stat.total)))

\* FillRankings passing over a record whose team has no total ("if team_id
\* in team_totals:").
RECURSIVE FillRankingsSkip(_, _, _)
FillRankingsSkip(stats, rk, tt) ==
    IF stats = <<>> THEN [ranking |-> rk, team_totals |-> tt, err |-> ""]
    ELSE LET stat == Head(stats)
             rk2 == Append(rk, <<stat.user_id, ParseInt(stat.total)>>)
         IN  IF ~IntOk(stat.total)
             THEN [ranking |-> rk, team_totals |-> tt, err |-> "ValueError"]
             ELSE IF ~HasKey(tt, stat.team_id)
             THEN FillRankingsSkip(Tail(stats), rk2, tt)
             ELSE FillRankingsSkip(Tail(stats), rk2,
                                   Update(tt, stat.team_id,
                                          Lookup(tt, stat.team_id) + ParseInt(stat.total)))

\* The loop "for stat in data['statistics'].values()": rk and tt are ranking
\* and team_totals so far. int() raises ValueError, team_totals[...] KeyError.
RECURSIVE FillRankings(_, _, _)
FillRankings(stats, rk, tt) ==
    IF stats = <<>> THEN [ranking |-> rk, team_totals |-> tt, err |-> ""]
    ELSE LET stat == Head(stats)
             rk2 == Append(rk, <<stat.user_id, ParseInt(stat.total)>>)
         IN  IF ~IntOk(stat.total)
             THEN [ranking |-> rk, team_totals |-> tt, err |-> "ValueError"]
             ELSE IF ~HasKey(tt, stat.team_id)
             THEN [ranking |-> rk2, team_totals |-> tt, err |-> "KeyError"]
             ELSE FillRankings(Tail(stats), rk2,
                               Update(tt, stat.team_id,
                                      Lookup(tt, stat.team_id) + ParseInt(stat.total)))

RECURSIVE InsertDesc(_, _)
InsertDesc(sorted, x) ==
    IF sorted = <<>> THEN <<x>>
    ELSE IF Head(sorted)[2] < x[2] THEN <<x>> \o sorted
    ELSE <<Head(sorted)>> \o InsertDesc(Tail(sorted), x)

RECURSIVE InsertAscByTotal(_, _)
InsertAscByTotal(sorted, x) ==
    IF sorted = <<>> THEN <<x>>
    ELSE IF x[2] < Head(sorted)[2] THEN <<x>> \o sorted
    ELSE <<Head(sorted)>> \o InsertAscByTotal(Tail(sorted), x)

\* SortDesc without reverse=True.
RECURSIVE SortAscByTotal(_)
SortAscByTotal(s) ==
    IF s = <<>> THEN <<>>
    ELSE InsertAscByTotal(SortAscByTotal(SubSeq(s, 1, Len(s) - 1)), s[Len(s)])

\* sort(key=lambda x: x[1], reverse=True) on <<id, total>> pairs: descending
\* by total, equal totals in their original order.
RECURSIVE SortDesc(_)
SortDesc(s) ==
    IF s = <<>> THEN <<>> ELSE InsertDesc(SortDesc(SubSeq(s, 1, Len(s) - 1)), s[Len(s)])

DisplayName(u) == u.first_name \o " " \o u.last_name \o " (" \o u.login \o ")"

\* The loop printing the individual leaderboard, from rank on.
RECURSIVE PrintIndividual(_, _, _, _)
PrintIndividual(data, rk, rank, lines) ==
    IF rk = <<>> THEN [out |-> lines, err |-> ""]
    ELSE IF Head(rk)[1] \notin data.users THEN [out |-> lines, err |-> "KeyError"]
    ELSE PrintIndividual(data, Tail(rk), rank + 1,
                         Append(lines, [kind |-> "indiv", rank |-> rank, total |-> Head(rk)[2],
                                        name |-> DisplayName(UserRecord(Head(rk)[1]))]))

\* The loop printing the team leaderboard, from rank on.
RECURSIVE PrintTeams(_, _, _, _)
PrintTeams(data, tt, rank, lines) ==
    IF tt = <<>> THEN [out |-> lines, err |-> ""]
    ELSE IF Head(tt)[1] \notin data.teams THEN [out |-> lines, err |-> "KeyError"]
    ELSE PrintTeams(data, Tail(tt), rank + 1,
                    Append(lines, [kind |-> "team", rank |-> rank, total |-> Head(tt)[2],
                                   name |-> TeamRecord(Head(tt)[1]).name]))

\* leaders(args)
leaders(r, ch) ==
    LET r1 == get_leaderboard(r, FALSE, "", ch)
        data == r1.ret[1]
        zero == [i \in DOMAIN data.indexUsersByTeam |-> <<data.indexUsersByTeam[i], 0>>]
        fill == FillRankings(data.statistics, <<>>, zero)
        r2 == [r1 EXCEPT !.ranking = fill.ranking, !.team_totals = fill.team_totals]
        sorted == SortDesc(fill.ranking)
        ind == PrintIndividual(data, sorted, 1,
                               r1.out \o <<Text("Individual Leaderboard"),
                                           Text("Rank Total      Name"),
                                           Text("---- ---------- ----------")>>)
        tms == PrintTeams(data, SortDesc(fill.team_totals), 1,
                          ind.out \o <<Text(""), Text("Team Leaderboard"),
                                       Text("Rank Total        Team"),
                                       Text("---- ------------ ------------")>>)
    IN  IF r1.pc = "error" THEN r1
        ELSE IF fill.err # "" THEN Raise(r2, fill.err)
        ELSE IF ind.err # "" THEN Raise([r2 EXCEPT !.ranking = sorted, !.out = ind.out], ind.err)
        ELSE IF tms.err # "" THEN Raise([r2 EXCEPT !.ranking = sorted, !.out = tms.out], tms.err)
        ELSE [r2 EXCEPT !.pc = "done", !.ranking = sorted, !.out = tms.out]

\* add_post issuing the walk-history refresh in place of the POST.
add_post_refresh_first(r, ch) ==
    LET r1 == get_walk_history(r, r.date, ch)
    IN  IF r1.pc = "error" THEN r1 ELSE [r1 EXCEPT !.pc = "add_history"]

\* add(args), one operator per request.
add_post(r, ch) ==
    LET r1 == add_steps(r, r.steps, r.date, ch)
    IN  IF r1.pc = "error" THEN r1 ELSE [r1 EXCEPT !.pc = "add_history"]

add_history(r, ch) ==
    LET r1 == get_walk_history(r, r.date, ch)
    IN  IF r1.pc = "error" THEN r1 ELSE [r1 EXCEPT !.pc = "add_leaders"]

add_leaders(r, ch) ==
    LET r1 == get_leaderboard(r, TRUE, r.date, ch)
    IN  IF r1.pc = "error" THEN r1 ELSE [r1 EXCEPT !.pc = "done"]

\* delete(args): the first request and "dic['data'][args.date]['logs'].values()".
delete_fetch(r, ch) ==
    LET r1 == get_walk_history(r, r.date, ch)
        data == r1.ret[1].data
    IN  IF r1.pc = "error" THEN r1
        ELSE IF ~HasKey(data, r.date) THEN Raise([r1 EXCEPT !.dic = r1.ret], "KeyError")
        ELSE IF ~Lookup(data, r.date).haslogs THEN Raise([r1 EXCEPT !.dic = r1.ret], "KeyError")
        ELSE [r1 EXCEPT !.pc = "delete_loop", !.dic = r1.ret, !.todo = Values(Lookup(data, r.date).logs)]

\* delete(args): one turn of the loop.
delete_one(r, ch) ==
    LET r1 == delete_steps(r, Head(r.todo).id, ch)
    IN  IF r1.pc = "error" THEN r1 ELSE [r1 EXCEPT !.todo = Tail(r.todo)]

\* delete(args): the request after the loop.
delete_refetch(r, ch) ==
    LET r1 == get_walk_history(r, r.date, ch)
    IN  IF r1.pc = "error" THEN r1 ELSE [r1 EXCEPT !.pc = "done"]

\* An importing script's call c of an API method: r1 is the state it returns.
called(r1, c) ==
    IF r1.pc = "error" THEN [r1 EXCEPT !.call = c]
    ELSE [r1 EXCEPT !.calls = @ + 1, !.call = c]

----------------------------------------------------------------------------
(* The state machine *)

Cur ==
    [pc |-> pc, cmd |-> cmd, debug |-> debug, date |-> date, steps |-> steps,
     config |-> config, session |-> session, requests |-> requests, url |-> url,
     walk |-> walk, acts |-> acts, ret |-> ret, dic |-> dic, todo |-> todo,
     ranking |-> ranking, team_totals |-> team_totals, out |-> out, diag |-> diag,
     err |-> err, calls |-> calls, call |-> call]

Become(n) ==
    /\ pc' = n.pc /\ cmd' = n.cmd /\ debug' = n.debug /\ date' = n.date
    /\ steps' = n.steps /\ config' = n.config /\ session' = n.session
    /\ requests' = n.requests /\ url' = n.url /\ walk' = n.walk
    /\ acts' = n.acts /\ ret' = n.ret /\ dic' = n.dic /\ todo' = n.todo
    /\ ranking' = n.ranking
    /\ team_totals' = n.team_totals /\ out' = n.out /\ diag' = n.diag
    /\ err' = n.err /\ calls' = n.calls /\ call' = n.call

\* The state at "api = None", before parse_args() has been acted on.
NewRun(c, dbg, cfg, d, n, w, a) ==
    [pc |-> "start", cmd |-> c, debug |-> dbg, date |-> d, steps |-> n,
     config |-> cfg, session |-> 0, requests |-> <<>>, url |-> <<>>,
     walk |-> w, acts |-> a, ret |-> <<>>, dic |-> <<>>, todo |-> <<>>,
     ranking |-> <<>>, team_totals |-> <<>>, out |-> <<>>, diag |-> <<>>,
     err |-> "", calls |-> 0, call |-> [name |-> ""]]

Cmds == {"activities", "history", "leaders", "add", "delete", "module"}

\* The runs the model starts from. A run whose report does not show the
\* walking logs starts from one of two sample values of them.
InitRuns(dbgs) ==
         {NewRun("activities", dbg, "present", "", 0, SampleWalk, a) :
             dbg \in dbgs, a \in ActivityDicts}
    \cup {NewRun("history", dbg, "present", "", 0, w, <<>>) :
             dbg \in dbgs, w \in WalkStates}
    \cup {NewRun("leaders", dbg, "present", "", 0, SampleWalk, <<>>) : dbg \in dbgs}
    \cup {NewRun("add", dbg, "present", d, n, w, <<>>) :
             dbg \in dbgs, d \in Dates, n \in 0..MaxSteps, w \in {<<>>, SampleWalk}}
    \cup {NewRun("delete", dbg, "present", d, 0, w, <<>>) :
             dbg \in dbgs, d \in Dates, w \in WalkStates}
    \cup {NewRun("module", dbg, "present", "", 0, w, <<"running", "cycling">>) :
             dbg \in dbgs, w \in {<<>>, SampleWalk}}
    \cup {NewRun(c, dbg, "missing", "", 0, SampleWalk, <<>>) : c \in Cmds, dbg \in dbgs}

Start(r) ==
    /\ pc = r.pc /\ cmd = r.cmd /\ debug = r.debug /\ date = r.date
    /\ steps = r.steps /\ config = r.config /\ session = r.session
    /\ requests = r.requests /\ url = r.url /\ walk = r.walk
    /\ acts = r.acts /\ ret = r.ret /\ dic = r.dic /\ todo = r.todo
    /\ ranking = r.ranking
    /\ team_totals = r.team_totals /\ out = r.out /\ diag = r.diag
    /\ err = r.err /\ calls = r.calls /\ call = r.call

Init == \E r \in InitRuns(BOOLEAN) : Start(r) /\ twin = <<>>

\* Two runs side by side: one without --debug, its twin with it.
InitDebug ==
    \E r \in InitRuns({FALSE}) : Start(r) /\ twin = <<[r EXCEPT !.debug = TRUE]>>

\* What the environment decides during one request. A leaderboard whose
\* content the caller does not read is the sample snapshot.
PostChoices == [ts : Times, net : NetOutcomes, keep : {FALSE}, board : {SampleBoard}]
GetChoices == [ts : Times, net : GetOutcomes, keep : {FALSE}, board : {SampleBoard}]
DeleteChoices == [ts : Times, net : GetOutcomes, keep : BOOLEAN, board : {SampleBoard}]
LeadersChoices ==
         [ts : Times, net : {"ok"}, keep : {FALSE}, board : Snapshots]
    \cup [ts : Times, net : {"notjson", "neterr"}, keep : {FALSE}, board : {SampleBoard}]

Initialise ==
    /\ pc = "start"
    /\ \E net \in NetOutcomes :
          /\ Become(initialise(Cur, net))
          /\ twin' = IF twin = <<>> THEN <<>> ELSE <<initialise(twin[1], net)>>

Activities ==
    /\ pc = "ready" /\ cmd = "activities"
    /\ \E ch \in GetChoices :
          /\ Become(activities(Cur, ch))
          /\ twin' = IF twin = <<>> THEN <<>> ELSE <<activities(twin[1], ch)>>

History ==
    /\ pc = "ready" /\ cmd = "history"
    /\ \E ch \in GetChoices, py3 \in BOOLEAN :
          /\ Become(history(Cur, ch, py3))
          /\ twin' = IF twin = <<>> THEN <<>> ELSE <<history(twin[1], ch, py3)>>

Leaders ==
    /\ pc = "ready" /\ cmd = "leaders"
    /\ \E ch \in LeadersChoices :
          /\ Become(leaders(Cur, ch))
          /\ twin' = IF twin = <<>> THEN <<>> ELSE <<leaders(twin[1], ch)>>

AddPost ==
    /\ pc = "ready" /\ cmd = "add"
    /\ \E ch \in PostChoices :
          /\ Become(add_post(Cur, ch))
          /\ twin' = IF twin = <<>> THEN <<>> ELSE <<add_post(twin[1], ch)>>

AddHistory ==
    /\ pc = "add_history"
    /\ \E ch \in GetChoices :
          /\ Become(add_history(Cur, ch))
          /\ twin' = IF twin = <<>> THEN <<>> ELSE <<add_history(twin[1], ch)>>

AddLeaders ==
    /\ pc = "add_leaders"
    /\ \E ch \in GetChoices :
          /\ Become(add_leaders(Cur, ch))
          /\ twin' = IF twin = <<>> THEN <<>> ELSE <<add_leaders(twin[1], ch)>>

DeleteFetch ==
    /\ pc = "ready" /\ cmd = "delete"
    /\ \E ch \in GetChoices :
          /\ Become(delete_fetch(Cur, ch))
          /\ twin' = IF twin = <<>> THEN <<>> ELSE <<delete_fetch(twin[1], ch)>>

DeleteOne ==
    /\ pc = "delete_loop" /\ todo # <<>>
    /\ \E ch \in DeleteChoices :
          /\ Become(delete_one(Cur, ch))
          /\ twin' = IF twin = <<>> THEN <<>> ELSE <<delete_one(twin[1], ch)>>

DeleteRefetch ==
    /\ pc = "delete_loop" /\ todo = <<>>
    /\ \E ch \in GetChoices :
          /\ Become(delete_refetch(Cur, ch))
          /\ twin' = IF twin = <<>> THEN <<>> ELSE <<delete_refetch(twin[1], ch)>>

CallGetActivityList ==
    /\ pc = "ready" /\ cmd = "module" /\ calls < MaxCalls
    /\ \E ch \in GetChoices :
          LET c == [name |-> "get_activity_list"]
          IN  /\ Become(called(get_activity_list(Cur, ch), c))
              /\ twin' = IF twin = <<>> THEN <<>>
                         ELSE <<called(get_activity_list(twin[1], ch), c)>>

CallGetWalkHistory ==
    /\ pc = "ready" /\ cmd = "module" /\ calls < MaxCalls
    /\ \E ch \in GetChoices, d \in Dates \cup {""} :
          LET c == [name |-> "get_walk_history", date |-> d]
          IN  /\ Become(called(get_walk_history(Cur, d, ch), c))
              /\ twin' = IF twin = <<>> THEN <<>>
                         ELSE <<called(get_walk_history(twin[1], d, ch), c)>>

CallGetLeaderboard ==
    /\ pc = "ready" /\ cmd = "module" /\ calls < MaxCalls
    /\ \E ch \in GetChoices, recalc \in BOOLEAN, d \in Dates \cup {""} :
          LET c == [name |-> "get_leaderboard", recalc |-> recalc, date_check |-> d]
          IN  /\ Become(called(get_leaderboard(Cur, recalc, d, ch), c))
              /\ twin' = IF twin = <<>> THEN <<>>
                         ELSE <<called(get_leaderboard(twin[1], recalc, d, ch), c)>>

CallAddSteps ==
    /\ pc = "ready" /\ cmd = "module" /\ calls < MaxCalls
    /\ \E ch \in PostChoices, n \in 0..MaxSteps, d \in Dates :
          LET c == [name |-> "add_steps", step_count |-> n, date_string |-> d]
          IN  /\ Become(called(add_steps(Cur, n, d, ch), c))
              /\ twin' = IF twin = <<>> THEN <<>>
                         ELSE <<called(add_steps(twin[1], n, d, ch), c)>>

CallDeleteSteps ==
    /\ pc = "ready" /\ cmd = "module" /\ calls < MaxCalls
    /\ \E ch \in DeleteChoices, id \in AllLogIds(walk) :
          LET c == [name |-> "delete_steps", logs_id |-> id]
          IN  /\ Become(called(delete_steps(Cur, id, ch), c))
              /\ twin' = IF twin = <<>> THEN <<>>
                         ELSE <<called(delete_steps(twin[1], id, ch), c)>>

Next ==
    \/ Initialise
    \/ Activities
    \/ History
    \/ Leaders
    \/ AddPost
    \/ AddHistory
    \/ AddLeaders
    \/ DeleteFetch
    \/ DeleteOne
    \/ DeleteRefetch
    \/ CallGetActivityList
    \/ CallGetWalkHistory
    \/ CallGetLeaderboard
    \/ CallAddSteps
    \/ CallDeleteSteps

Spec == Init /\ [][Next]_vars

SpecDebug == InitDebug /\ [][Next]_vars

----------------------------------------------------------------------------
(* Properties *)

Rows(k) == SelectSeq(out, LAMBDA l : l.kind = k)
RowTotals(rows) == [i \in DOMAIN rows |-> rows[i].total]
PairTotals(pairs) == [i \in DOMAIN pairs |-> pairs[i][2]]
Count(s, x) == Cardinality({i \in DOMAIN s : s[i] = x})
LastRequest == requests[Len(requests)]

\* The URL path of a request: what lies between the base URL and the
\* cache-busting parameter with its delimiter.
PathOf(target) == SubSeq(target, 2, Len(target) - 2)

LoginRequest ==
    [method |-> "POST", target |-> <<"https://www.members.10000stepsuk.com", "/sessions">>,
     data |-> <<"login", "my_username", "password", "my_password">>, sess |-> 1]

\* leaders has got the snapshot and its loop over the statistics has ended
\* without an exception: it went on to print.
AggregationCompleted == cmd = "leaders" /\ (pc = "done" \/ (pc = "error" /\ out # <<>>))

\* C1: whenever the leaders aggregation completes, the totals of the
\* individual ranking list add up to the same sum as the accumulated team
\* totals; in a finished report the printed individual totals and the printed
\* team totals add up to the same sum too.
C1_Conservation ==
    /\ AggregationCompleted =>
          SumSeq(PairTotals(ranking)) = SumSeq(PairTotals(team_totals))
    /\ (cmd = "leaders" /\ pc = "done") =>
          /\ SumSeq(RowTotals(Rows("indiv"))) = SumSeq(RowTotals(Rows("team")))
          /\ Len(Rows("team")) = Len(team_totals)

C1_Witness ==
    /\ cmd = "leaders" /\ pc = "done"
    /\ Len(ranking) = 2 /\ Len(team_totals) = 2
    /\ ranking[1][2] # ranking[2][2]
    /\ \E i \in DOMAIN team_totals : team_totals[i][2] = 49

\* C2: in a finished leaders report the individual rows carry the ranks
\* 1..N in output order, N the number of statistic records; the total never
\* increases from one rank to the next; and the row of rank 1 holds the
\* largest total of all statistic records.
C2_IndividualRanking ==
    (cmd = "leaders" /\ pc = "done") =>
        LET rows == Rows("indiv")
            stats == ret[1].statistics
        IN  /\ Len(rows) = Len(stats)
            /\ \A i \in DOMAIN rows : rows[i].rank = i
            /\ \A i \in DOMAIN rows : i < Len(rows) => rows[i].total >= rows[i + 1].total
            /\ \A j \in DOMAIN stats : rows[1].total >= ParseInt(stats[j].total)
            /\ stats # <<>> => \E j \in DOMAIN stats : rows[1].total = ParseInt(stats[j].total)

C2_Witness ==
    /\ cmd = "leaders" /\ pc = "done"
    /\ Len(ret[1].statistics) = 2
    /\ ret[1].statistics[1].total = <<"7">>
    /\ ret[1].statistics[2].total = <<"4", "2">>
    /\ Rows("indiv")[1].total = 42

\* The snapshot leaders received holds a statistic record whose team_id is
\* no key of indexUsersByTeam.
UnknownTeamInSnapshot ==
    /\ cmd = "leaders" /\ ret # <<>>
    /\ \E j \in DOMAIN ret[1].statistics :
          ret[1].statistics[j].team_id \notin Range(ret[1].indexUsersByTeam)

\* C3: when a statistic record names a team that is no key of
\* indexUsersByTeam, leaders ends in the error state with nothing printed,
\* and team_totals holds exactly the keys of indexUsersByTeam: the record is
\* not passed over and no total appears for the unknown team.
C3_UnknownTeamIsFatal ==
    UnknownTeamInSnapshot =>
        /\ pc = "error"
        /\ err \in {"KeyError", "ValueError"}
        /\ out = <<>>
        /\ Keys(team_totals) = ret[1].indexUsersByTeam

C3_Witness ==
    /\ UnknownTeamInSnapshot
    /\ pc = "error" /\ err = "KeyError"
    /\ Len(ranking) = 2
    /\ Len(team_totals) = 1 /\ team_totals[1][2] > 0

DeleteTarget(id) ==
    <<"https://www.members.10000stepsuk.com", "/walking_logs/", ToString(id),
      "?", "_method=delete", "&", "ajax.timestamp=">>

ReloadTarget(d) ==
    <<"https://www.members.10000stepsuk.com", "/users/logWalkHistory",
      "?", "reloadDate=", d, "&", "ajax.timestamp=">>

\* What C4 promises of a run of delete that has come to its end.
DeletedAndRefetched ==
    LET n == Len(requests)
        held == Lookup(dic[1].data, date).logs
        after == ret[1].data
    IN  /\ n >= 3
        /\ \A k \in DOMAIN held :
              \E i \in 3..(n - 1) : requests[i].target = DeleteTarget(held[k][1])
        /\ requests[n].method = "GET" /\ requests[n].target = ReloadTarget(date)
        /\ \A k \in DOMAIN after :
              after[k][1] = date =>
                  SumSeq([j \in DOMAIN after[k][2].logs |-> after[k][2].logs[j][2].steps]) = 0
        /\ \A e \in Range(walk) : e[1] = date => e[2].logs = <<>>

\* delete has come to its end, by returning or by an exception of its own:
\* every response arrived and was JSON, and the history it fetched first
\* holds a record for the date.
DeleteEnded ==
    /\ cmd = "delete" /\ pc \in {"done", "error"}
    /\ err \notin {"ConnectionError", "ValueError"}
    /\ dic # <<>> /\ HasKey(dic[1].data, date)

\* C4: for every date and every set of log entries the service holds for
\* it, a run of delete that the network and the service let through (each
\* response arrives and is JSON, each delete request removes its entry) ends
\* having issued a delete for every log id under the date and then the
\* re-fetch of the date's history, whose step total for the date is 0.
C4_DeleteThenRefetch == DeleteEnded => (pc = "done" /\ DeletedAndRefetched)

\* A run of delete that reaches its end without an exception has deleted
\* every entry of the date and re-fetched a total of 0.
DeleteCompleted == (cmd = "delete" /\ pc = "done") => DeletedAndRefetched

AddExpected(d, n) ==
    <<LoginRequest,
      [method |-> "POST",
       target |-> <<"https://www.members.10000stepsuk.com", "/walking_logs.json",
                    "?", "ajax.timestamp=">>,
       data |-> <<"walking_log[date_string]", d, "walking_log[units]", n,
                  "walking_log[steps]", n, "walking_log[unit_type]", "steps">>,
       sess |-> 1],
      [method |-> "GET", target |-> ReloadTarget(d), data |-> <<>>, sess |-> 1],
      [method |-> "GET",
       target |-> <<"https://www.members.10000stepsuk.com", "/users/leaderboards",
                    "?", "recalc", "&", "dateCheck=", d, "&", "ajax.timestamp=">>,
       data |-> <<>>, sess |-> 1]>>

\* C5: the requests of a run of add are, at every moment, the first so many
\* of: the login, the POST to /walking_logs.json with the step count and the
\* date, the GET of /users/logWalkHistory with reloadDate the date, the GET
\* of /users/leaderboards with recalc and dateCheck the date; a run that
\* ends without an exception has issued all four, so exactly three after
\* the login, and no refresh GET ever precedes the POST.
C5_AddRequests ==
    cmd = "add" =>
        /\ Len(requests) <= 4
        /\ requests = SubSeq(AddExpected(date, steps), 1, Len(requests))
        /\ pc = "done" => Len(requests) = 4
        /\ pc \in {"add_history", "add_leaders"} => Len(requests) >= 2

C5_Witness ==
    /\ cmd = "add" /\ pc = "done" /\ steps = 1 /\ date = "2024-02-29"
    /\ Len(requests) = 4

\* C6: before the API object exists (and in a run that exits for want of a
\* configuration file) nothing has been requested; from then on the login
\* POST to /sessions is the first request and the only one to /sessions,
\* API.session is the Session object that login created, and every request
\* of the run was issued on it.
C6_OneLoginOneSession ==
    /\ pc \in {"start", "exit"} => (requests = <<>> /\ session = 0)
    /\ pc \notin {"start", "exit"} =>
          /\ requests # <<>>
          /\ requests[1] = LoginRequest
          /\ \A i \in DOMAIN requests : i > 1 => requests[i].target[2] # "/sessions"
          /\ session = 1
          /\ \A i \in DOMAIN requests : requests[i].sess = 1

C6_Witness ==
    /\ cmd = "delete" /\ pc = "done"
    /\ Len(requests) >= 5
    /\ session = 1

\* The shape _url gives a URL (here without the timestamp's value).
UrlShape(t) ==
    LET n == Len(t)
    IN  /\ n >= 4
        /\ t[1] = "https://www.members.10000stepsuk.com"
        /\ t[n] = "ajax.timestamp="
        /\ t[n - 1] = (IF "?" \in Range(SubSeq(t, 2, n - 2)) THEN "&" ELSE "?")
        /\ Count(t, "ajax.timestamp=") = 1
        /\ Count(t, "?") = 1

\* C7: every URL _url builds is the base URL, the path, and one
\* ajax.timestamp parameter whose value is the clock's reading, joined with
\* '?' when the path holds no '?' and with '&' when it holds one, so the URL
\* holds exactly one '?'; the activity-list URL and the delete URL are the
\* two cases, written out.
C7_UrlConstruction ==
    /\ \A i \in DOMAIN requests : i > 1 => UrlShape(requests[i].target)
    /\ url # <<>> =>
          /\ UrlShape(Target(url))
          /\ Target(url) = LastRequest.target
          /\ \E t \in Times : url[Len(url)] = ToString(t)
    /\ (cmd = "module" /\ call.name = "get_activity_list") =>
          Target(url) = <<"https://www.members.10000stepsuk.com", "/users/getActivityList",
                          "?", "ajax.timestamp=">>
    /\ (cmd = "module" /\ call.name = "delete_steps") =>
          Target(url) = DeleteTarget(call.logs_id)

C7_Witness ==
    /\ cmd = "module" /\ pc = "ready" /\ calls = 2
    /\ requests[2].target = <<"https://www.members.10000stepsuk.com",
                              "/users/getActivityList", "?", "ajax.timestamp=">>
    /\ call.name = "delete_steps"
    /\ url = <<"https://www.members.10000stepsuk.com", "/walking_logs/", "1",
               "?", "_method=delete", "&", "ajax.timestamp=", "2">>

\* The query get_leaderboard is to append, case by case.
LeaderboardQuery(recalc, date_check) ==
    IF ~recalc /\ date_check = "" THEN <<>>
    ELSE IF recalc /\ date_check = "" THEN <<"?", "recalc">>
    ELSE IF ~recalc THEN <<"?", "dateCheck=", date_check>>
    ELSE <<"?", "recalc", "&", "dateCheck=", date_check>>

\* C8: a call get_leaderboard(recalc, date_check) requests the path
\* /users/leaderboards followed by nothing, '?recalc', '?dateCheck=<date>' or
\* '?recalc&dateCheck=<date>' according to its two arguments; leaders requests
\* the bare path.
C8_LeaderboardPath ==
    /\ (cmd = "module" /\ call.name = "get_leaderboard") =>
          /\ LastRequest.method = "GET"
          /\ PathOf(LastRequest.target)
                = <<"/users/leaderboards">> \o LeaderboardQuery(call.recalc, call.date_check)
    /\ (cmd = "leaders" /\ Len(requests) >= 2) =>
          PathOf(requests[2].target) = <<"/users/leaderboards">>

C8_Witness ==
    /\ cmd = "module" /\ pc = "ready" /\ calls >= 1
    /\ call.name = "get_leaderboard"
    /\ call.recalc /\ call.date_check = "2024-03-01"
    /\ PathOf(LastRequest.target)
          = <<"/users/leaderboards", "?", "recalc", "&", "dateCheck=", "2024-03-01">>

\* The report holds one line per date of the history, in ascending order of
\* date, with the sum of the steps of the date's log entries, 0 for a date
\* whose record has no "logs".
HistorySummarized ==
    LET data == ret[1].data
        days == Rows("day")
    IN  /\ Len(days) = Len(data)
        /\ \A i \in DOMAIN days : \A j \in DOMAIN days :
              i < j => StrLess(days[i].date, days[j].date)
        /\ \A k \in DOMAIN data :
              \E i \in DOMAIN days :
                 /\ days[i].date = data[k][1]
                 /\ days[i].steps =
                       (IF data[k][2].haslogs
                        THEN SumSeq([j \in DOMAIN data[k][2].logs |->
                                        data[k][2].logs[j][2].steps])
                        ELSE 0)

\* C9: once history has received a walk history, its report holds every
\* date of it exactly once, in ascending order, each with the sum of the
\* steps of its log entries, 0 for a date without "logs".
C9_HistorySummary ==
    (cmd = "history" /\ pc \in {"done", "error"} /\ ret # <<>>) => HistorySummarized

\* A run of history that ends without an exception (the Python 2 reading
\* of dates.sort()) has printed that report.
HistoryCompleted == (cmd = "history" /\ pc = "done") => HistorySummarized

\* C10: of two runs given the same arguments, the same clock readings and
\* the same responses, one without --debug and one with it, every part of
\* the state but the debug flag and the debug prints is the same at every
\* step: the requests issued, the values _get returned, the report, the
\* position, the exception.
C10_DebugObservational ==
    twin # <<>> => [twin[1] EXCEPT !.debug = debug, !.diag = diag] = Cur

C10_Witness ==
    /\ twin # <<>>
    /\ ~debug /\ twin[1].debug
    /\ cmd = "delete" /\ pc = "done"
    /\ Len(requests) >= 5
    /\ diag = <<>> /\ Len(twin[1].diag) >= 8
    /\ twin[1].ret = ret

====
